---------------------------- MODULE Spec2Model ----------------------------
(***************************************************************************)
(* Model of the INA219 driver of USB_Tester_Beta_FW2.3 (INA219.cpp).       *)
(*                                                                         *)
(* The driver owns three fields (the I2C address and the two dividers) and *)
(* talks to the chip through the Arduino Wire object.  The model keeps the *)
(* driver's fields, the chip's register store and register pointer, the    *)
(* position inside a calibration preset (its two register writes are two   *)
(* bus transactions), and a log of the Wire calls of the operation that is *)
(* running or ran last.  The bus is modelled as delivering every           *)
(* transaction to the chip; the ARDUINO >= 100 branch is the one modelled  *)
(* (both branches send and receive the same bytes).                        *)
(***************************************************************************)
EXTENDS Integers, Sequences, FiniteSets

(***************************************************************************)
(* Integer widths and bit operations                                       *)
(***************************************************************************)
\* uint16_t holds 0 .. Word-1; uint8_t holds 0 .. Byte-1.
Word == 65536
Byte == 256

RECURSIVE Shr(_, _)
\* x >> n on a non-negative value
Shr(x, n) == IF n = 0 THEN x ELSE Shr(x \div 2, n - 1)

RECURSIVE Shl(_, _)
\* x << n on a non-negative value, before any narrowing
Shl(x, n) == IF n = 0 THEN x ELSE Shl(x + x, n - 1)

RECURSIVE BitAnd(_, _)
BitAnd(x, y) ==
  IF x = 0 \/ y = 0 THEN 0
  ELSE (IF x % 2 = 1 /\ y % 2 = 1 THEN 1 ELSE 0) + 2 * BitAnd(x \div 2, y \div 2)

RECURSIVE BitOr(_, _)
BitOr(x, y) ==
  IF x = 0 THEN y
  ELSE IF y = 0 THEN x
  ELSE (IF x % 2 = 1 \/ y % 2 = 1 THEN 1 ELSE 0) + 2 * BitOr(x \div 2, y \div 2)

\* conversion to uint16_t (assignment to a uint16_t object)
ToUint16(x) == x % Word

\* the cast (int16_t)x of an integer: the low 16 bits read as two's complement
ToInt16(x) == IF x % Word >= Word \div 2 THEN (x % Word) - Word ELSE x % Word

(***************************************************************************)
(* INA219.h: register ids and configuration fields.  The header is not     *)
(* among the sources; the values are those of the INA219 register map the  *)
(* specification lists (configuration, shunt voltage, bus voltage, power,  *)
(* current, calibration, in this order) and of the fields its preset table *)
(* names.                                                                  *)
(***************************************************************************)
INA219_REG_CONFIG == 0
INA219_REG_SHUNTVOLTAGE == 1
INA219_REG_BUSVOLTAGE == 2
INA219_REG_POWER == 3
INA219_REG_CURRENT == 4
INA219_REG_CALIBRATION == 5

INA219_CONFIG_BVOLTAGERANGE_16V == 0
INA219_CONFIG_BVOLTAGERANGE_32V == 8192
INA219_CONFIG_GAIN_1_40MV == 0
INA219_CONFIG_GAIN_8_320MV == 6144
INA219_CONFIG_BADCRES_12BIT == 1024
INA219_CONFIG_SADCRES_12BIT_1S_532US == 24
INA219_CONFIG_MODE_SANDBVOLT_CONTINUOUS == 7

RegIds == { INA219_REG_CONFIG, INA219_REG_SHUNTVOLTAGE, INA219_REG_BUSVOLTAGE,
            INA219_REG_POWER, INA219_REG_CURRENT, INA219_REG_CALIBRATION }

\* the registers the chip's converter fills
MeasureRegs == { INA219_REG_SHUNTVOLTAGE, INA219_REG_BUSVOLTAGE, INA219_REG_CURRENT }

(***************************************************************************)
(* Inputs                                                                  *)
(***************************************************************************)
\* addresses a driver is constructed with (A0/A1 strap options of the chip)
Addresses == { 64, 65 }

\* raw register contents the converter produces in the life-cycle model
BusSamples == { 7976, 65535 }
ShuntSamples == { 649, 650 }
CurrentSamples == { 100, 65436 }

RawSamples(r) ==
  IF r = INA219_REG_BUSVOLTAGE THEN BusSamples
  ELSE IF r = INA219_REG_SHUNTVOLTAGE THEN ShuntSamples
  ELSE CurrentSamples

\* values written in the bus round-trip model
WordSamples == { 7976, 255, 65280, 32769 }

\* number of wireWriteRegister calls a round-trip behaviour makes
MaxWrites == 2

(***************************************************************************)
(* State                                                                   *)
(***************************************************************************)
VARIABLES
  ina219_i2caddr,            \* driver field: the chip's bus address
  ina219_currentDivider_mA,  \* driver field
  ina219_powerDivider_mW,    \* driver field
  wireBegun,                 \* Wire.begin() has been called
  devRegs,                   \* chip: register id -> the two bytes it holds, in bus order
  devPtr,                    \* chip: register pointer set by the last write transaction
  pc,                        \* position: "idle", or inside a preset before its
                             \*   calibration write ("cal") or its config write ("cfg")
  opName,                    \* the operation running or run last
  preset,                    \* the preset applied last ("none" before the first)
  busLog,                    \* Wire calls of the operation running or run last
  wireReg,                   \* reg argument of the last wire primitive call
  wireVal,                   \* value argument of the last wireWriteRegister call
  value,                     \* *value as wireReadRegister left it last
  result,                    \* return value of the last accessor
  nWrites                    \* round-trip model: wireWriteRegister calls made

vars == << ina219_i2caddr, ina219_currentDivider_mA, ina219_powerDivider_mW,
           wireBegun, devRegs, devPtr, pc, opName, preset, busLog,
           wireReg, wireVal, value, result, nWrites >>

driverFields == << ina219_i2caddr, ina219_currentDivider_mA, ina219_powerDivider_mW >>

(***************************************************************************)
(* The Wire object and the chip behind it                                  *)
(***************************************************************************)
\* one Wire call: its name, its first argument (address or byte), and the
\* byte count of a requestFrom
WireCall(c, a, n) == [call |-> c, a |-> a, n |-> n]

\* the two bytes of a 16-bit register content as the chip holds and sends them
RegBytes(v) == << v \div Byte, v % Byte >>

\* the 16-bit content of a register of the chip
RegWord(bytes) == bytes[1] * Byte + bytes[2]

\* the chip after a write transaction carrying `bytes`: the first byte sets
\* the register pointer, two further bytes are stored in that register
DevAfterWrite(regs, ptr, bytes) ==
  [ ptr  |-> bytes[1],
    regs |-> IF Len(bytes) >= 3 /\ bytes[1] \in DOMAIN regs
             THEN [regs EXCEPT ![bytes[1]] = << bytes[2], bytes[3] >>]
             ELSE regs ]

\* the bytes the chip sends when two bytes are requested
DevSend(regs, ptr) == regs[ptr]

\* the register store of a chip after power-on, converter registers at 0
DevReset ==
  [ r \in RegIds |-> IF r = INA219_REG_CONFIG THEN RegBytes(14751) ELSE RegBytes(0) ]

(***************************************************************************)
(* wireWriteRegister, wireReadRegister                                     *)
(***************************************************************************)
\* variant of WireWriteBytes: the low byte sent before the high byte
WireWriteBytes_LowFirst(r, v) == << r, BitAnd(v, 255), BitAnd(Shr(v, 8), 255) >>

\* the bytes wireWriteRegister hands to Wire.write, in call order
WireWriteBytes(r, v) == << r, BitAnd(Shr(v, 8), 255), BitAnd(v, 255) >>

\* the Wire calls of wireWriteRegister(r, v)
WireWriteCalls(addr, r, v) ==
  << WireCall("beginTransmission", addr, 0) >>
  \o [ i \in 1..3 |-> WireCall("write", WireWriteBytes(r, v)[i], 0) ]
  \o << WireCall("endTransmission", 0, 0) >>

\* variant of WireReadCalls: the request made before the write transaction
\* is closed
WireReadCalls_NoStop(addr, r, bytes) ==
  << WireCall("beginTransmission", addr, 0),
     WireCall("write", r, 0),
     WireCall("requestFrom", addr, 2),
     WireCall("endTransmission", 0, 0),
     WireCall("read", bytes[1], 0),
     WireCall("read", bytes[2], 0) >>

\* the Wire calls of wireReadRegister(r) when the chip answers with `bytes`
WireReadCalls(addr, r, bytes) ==
  << WireCall("beginTransmission", addr, 0),
     WireCall("write", r, 0),
     WireCall("endTransmission", 0, 0),
     WireCall("requestFrom", addr, 2),
     WireCall("read", bytes[1], 0),
     WireCall("read", bytes[2], 0) >>

\* variant of WireReadValue: the first byte taken as the low byte
WireReadValue_LowFirst(bytes) == ToUint16(Shl(bytes[2], 8) + bytes[1])

\* *value = ((Wire.read() << 8) + Wire.read()): the two reads are taken in
\* source order, the left operand first, as the Arduino toolchain's gcc
\* evaluates them; the sum is narrowed to uint16_t
WireReadValue(bytes) == ToUint16(Shl(bytes[1], 8) + bytes[2])

\* wireWriteRegister(r, v): one write transaction of three bytes
wireWriteRegister(r, v) ==
  LET dev == DevAfterWrite(devRegs, devPtr, WireWriteBytes(r, v)) IN
  /\ busLog' = busLog \o WireWriteCalls(ina219_i2caddr, r, v)
  /\ devRegs' = dev.regs
  /\ devPtr' = dev.ptr
  /\ wireReg' = r
  /\ wireVal' = v

\* variant of wireReadRegister: the register id is followed by two data
\* bytes, as in wireWriteRegister, before the read
wireReadRegister_Sends3(r) ==
  LET dev == DevAfterWrite(devRegs, devPtr, << r, 0, 0 >>)
      bytes == DevSend(dev.regs, dev.ptr) IN
  /\ busLog' = << WireCall("beginTransmission", ina219_i2caddr, 0),
                  WireCall("write", r, 0),
                  WireCall("write", 0, 0),
                  WireCall("write", 0, 0),
                  WireCall("endTransmission", 0, 0),
                  WireCall("requestFrom", ina219_i2caddr, 2),
                  WireCall("read", bytes[1], 0),
                  WireCall("read", bytes[2], 0) >>
  /\ devRegs' = dev.regs
  /\ devPtr' = dev.ptr
  /\ wireReg' = r
  /\ wireVal' = wireVal
  /\ value' = ToUint16(Shl(bytes[1], 8) + bytes[2])

\* wireReadRegister(r, &value): a one-byte write transaction, then a read of
\* two bytes.  The log of the calling operation starts with this call.
wireReadRegister(r) ==
  LET dev == DevAfterWrite(devRegs, devPtr, << r >>)
      bytes == DevSend(dev.regs, dev.ptr) IN
  /\ busLog' = WireReadCalls(ina219_i2caddr, r, bytes)
  /\ devRegs' = dev.regs
  /\ devPtr' = dev.ptr
  /\ wireReg' = r
  /\ wireVal' = wireVal
  /\ value' = WireReadValue(bytes)

(***************************************************************************)
(* Single-precision arithmetic of getCurrent_mA                            *)
(*                                                                         *)
(* A finite float is sign * m * 2^e with m = 0 or 2^23 <= m < 2^24, kept   *)
(* as [neg, m, e].  Division and addition round to nearest, ties to even.  *)
(***************************************************************************)
RECURSIVE Log2Floor(_, _)
\* the E with 2^E <= n/den < 2^(E+1), for n, den > 0
Log2Floor(n, den) ==
  IF n < den THEN Log2Floor(n + n, den) - 1
  ELSE IF n >= den + den THEN Log2Floor(n, den + den) + 1
  ELSE 0

RECURSIVE TwoAdic(_)
\* the number of factors 2 of x > 0
TwoAdic(x) == IF x % 2 = 1 THEN 0 ELSE 1 + TwoAdic(x \div 2)

Min(a, b) == IF a <= b THEN a ELSE b

Abs(x) == IF x < 0 THEN 0 - x ELSE x

\* the float nearest to sign * n/den, for n, den > 0
F32Round(neg, n, den) ==
  LET e   == Log2Floor(n, den) - 23
      c   == IF e < 0 THEN Min(0 - e, TwoAdic(den)) ELSE 0
      num == IF e < 0 THEN n * 2^((0 - e) - c) ELSE n
      dn  == IF e < 0 THEN den \div 2^c ELSE den * 2^e
      q   == num \div dn
      r   == num % dn
      up  == (r + r > dn) \/ (r + r = dn /\ q % 2 = 1)
      m   == IF up THEN q + 1 ELSE q
  IN  IF m = 2^24 THEN [neg |-> neg, m |-> 2^23, e |-> e + 1]
      ELSE [neg |-> neg, m |-> m, e |-> e]

\* valueDec = (int16_t)value; valueDec /= divider, for divider > 0
F32Divide(s, divider) ==
  IF s = 0 THEN [neg |-> FALSE, m |-> 0, e |-> 0]
  ELSE F32Round(s < 0, Abs(s), divider)

\* x + 0.5 as the exact rational [num, den], den a power of two.  For the
\* quotients of F32Divide the exponent e is negative.
PlusHalf(x) ==
  IF x.m = 0 THEN [num |-> 1, den |-> 2]
  ELSE LET k == 0 - x.e
           sm == IF x.neg THEN 0 - x.m ELSE x.m
       IN  [num |-> sm + 2^(k - 1), den |-> 2^k]

\* conversion of the rational num/den to an integer: truncation toward zero
TruncRat(num, den) == IF num < 0 THEN 0 - (Abs(num) \div den) ELSE num \div den

\* the rational a float stands for, e < 0
F32Rat(x) ==
  [num |-> IF x.neg THEN 0 - x.m ELSE x.m, den |-> 2^(0 - x.e)]

\* (int16_t)(valueDec + 0.5) where double has 64 bits: the sum is exact
CurrentWithDouble64(s, divider) ==
  LET sum == PlusHalf(F32Divide(s, divider))
  IN  ToInt16(TruncRat(sum.num, sum.den))

\* (int16_t)(valueDec + 0.5) where double has 32 bits (AVR): the sum rounds
CurrentWithDouble32(s, divider) ==
  LET sum == PlusHalf(F32Divide(s, divider))
      rnd == IF sum.num = 0 THEN [num |-> 0, den |-> 1]
             ELSE F32Rat(F32Round(sum.num < 0, Abs(sum.num), sum.den))
  IN  ToInt16(TruncRat(rnd.num, rnd.den))

\* Outcomes of the conversion when the divider is 0: the quotient is an
\* infinity or a NaN, and its conversion to int16_t is undefined.  Builds
\* yield 0, the saturated bounds, or the low half of a saturated 32-bit value.
UndefinedConversion == { -32768, -1, 0, 32767 }

(***************************************************************************)
(* The conversion each accessor applies to the value read                  *)
(***************************************************************************)
\* getBusVoltage_raw: (int16_t)((value >> 3) * 4)
BusVoltageRaw(v) == ToInt16(Shr(v, 3) * 4)

\* getShuntVoltage_raw: (int16_t)value
ShuntVoltageRaw(v) == ToInt16(v)

\* getCurrent_raw: (int16_t)value
CurrentRaw(v) == ToInt16(v)

\* variant of ShuntVoltage_mV: the bound 650 itself is let through
ShuntVoltage_mV_Strict(v) == ToInt16(IF v > 650 THEN 0 ELSE v)

\* getShuntVoltage_mV: if(value >= 650)value = 0; (int16_t)value
ShuntVoltage_mV(v) == ToInt16(IF v >= 650 THEN 0 ELSE v)

\* variant of BusVoltage_V: shifted back by 3
BusVoltage_V_Shift3(v) == ToInt16(Shl(Shr(v, 3), 3))

\* getBusVoltage_V: (int16_t)((value >> 3) << 2)
BusVoltage_V(v) == ToInt16(Shl(Shr(v, 3), 2))

\* variant of Current_mA: rounding to nearest with ties away from zero, the
\* same for both signs
Current_mA_Symmetric(v, divider) ==
  IF divider = 0 THEN UndefinedConversion
  ELSE LET s == ToInt16(v)
           q == (2 * Abs(s) + divider) \div (2 * divider)
       IN  { IF s < 0 THEN 0 - q ELSE q }

\* getCurrent_mA: the values a build can return
Current_mA(v, divider) ==
  IF divider = 0 THEN UndefinedConversion
  ELSE { CurrentWithDouble64(ToInt16(v), divider),
         CurrentWithDouble32(ToInt16(v), divider) }

(***************************************************************************)
(* Calibration presets                                                     *)
(***************************************************************************)
Presets == { "32V_2A", "32V_1A", "16V_400mA" }

\* ina219_currentDivider_mA = ...
CurrentDivider(p) ==
  IF p = "32V_2A" THEN 10 ELSE IF p = "32V_1A" THEN 25 ELSE 20

\* ina219_powerDivider_mW = ...
PowerDivider(p) ==
  IF p = "32V_2A" THEN 2 ELSE 1

\* variant of CalibrationValue: the constants of 32V/1A and 16V/400mA swapped
CalibrationValue_Swapped(p) ==
  IF p = "32V_2A" THEN 4096 ELSE IF p = "32V_1A" THEN 8192 ELSE 10240

\* the constant written to the calibration register
CalibrationValue(p) ==
  IF p = "32V_2A" THEN 4096 ELSE IF p = "32V_1A" THEN 10240 ELSE 8192

\* uint16_t config = ... | ... | ... | ... | ...
ConfigValue(p) ==
  IF p = "16V_400mA"
  THEN BitOr(INA219_CONFIG_BVOLTAGERANGE_16V,
       BitOr(INA219_CONFIG_GAIN_1_40MV,
       BitOr(INA219_CONFIG_BADCRES_12BIT,
       BitOr(INA219_CONFIG_SADCRES_12BIT_1S_532US,
             INA219_CONFIG_MODE_SANDBVOLT_CONTINUOUS))))
  ELSE BitOr(INA219_CONFIG_BVOLTAGERANGE_32V,
       BitOr(INA219_CONFIG_GAIN_8_320MV,
       BitOr(INA219_CONFIG_BADCRES_12BIT,
       BitOr(INA219_CONFIG_SADCRES_12BIT_1S_532US,
             INA219_CONFIG_MODE_SANDBVOLT_CONTINUOUS))))

\* the name of the function that applies preset p
PresetOp(p) ==
  IF p = "32V_2A" THEN "ina219SetCalibration_32V_2A"
  ELSE IF p = "32V_1A" THEN "ina219SetCalibration_32V_1A"
  ELSE "ina219SetCalibration_16V_400mA"

\* the preset begin() applies
BeginPreset == "32V_2A"

\* variant of SetDividers: the power divider is not assigned
SetDividers_CurrentOnly(p) ==
  /\ ina219_currentDivider_mA' = CurrentDivider(p)
  /\ UNCHANGED ina219_powerDivider_mW
  /\ preset' = p
  /\ pc' = "cal"

\* the first statements of a preset: the two divider assignments
SetDividers(p) ==
  /\ ina219_currentDivider_mA' = CurrentDivider(p)
  /\ ina219_powerDivider_mW' = PowerDivider(p)
  /\ preset' = p
  /\ pc' = "cal"

\* a call of ina219SetCalibration_<p>, up to its first register write
SetCalibration(p) ==
  /\ pc = "idle"
  /\ SetDividers(p)
  /\ opName' = PresetOp(p)
  /\ busLog' = << >>
  /\ UNCHANGED << ina219_i2caddr, wireBegun, devRegs, devPtr, wireReg, wireVal,
                  value, result, nWrites >>

ina219SetCalibration_32V_2A == SetCalibration("32V_2A")

ina219SetCalibration_32V_1A == SetCalibration("32V_1A")

ina219SetCalibration_16V_400mA == SetCalibration("16V_400mA")

\* begin(): Wire.begin(), then ina219SetCalibration_32V_2A() up to its first
\* register write
begin ==
  /\ pc = "idle"
  /\ wireBegun' = TRUE
  /\ SetDividers(BeginPreset)
  /\ opName' = "begin"
  /\ busLog' = << WireCall("begin", 0, 0) >>
  /\ UNCHANGED << ina219_i2caddr, devRegs, devPtr, wireReg, wireVal,
                  value, result, nWrites >>

\* wireWriteRegister(INA219_REG_CALIBRATION, ...) of the preset running
WriteCalibration ==
  /\ pc = "cal"
  /\ wireWriteRegister(INA219_REG_CALIBRATION, CalibrationValue(preset))
  /\ pc' = "cfg"
  /\ UNCHANGED << driverFields, wireBegun, opName, preset, value, result, nWrites >>

\* variant of WriteConfig: every preset writes the configuration word of
\* 32V/2A
WriteConfig_Default ==
  /\ pc = "cfg"
  /\ wireWriteRegister(INA219_REG_CONFIG, ConfigValue(BeginPreset))
  /\ pc' = "idle"
  /\ UNCHANGED << driverFields, wireBegun, opName, preset, value, result, nWrites >>

\* wireWriteRegister(INA219_REG_CONFIG, config) of the preset running, and
\* the return
WriteConfig ==
  /\ pc = "cfg"
  /\ wireWriteRegister(INA219_REG_CONFIG, ConfigValue(preset))
  /\ pc' = "idle"
  /\ UNCHANGED << driverFields, wireBegun, opName, preset, value, result, nWrites >>

(***************************************************************************)
(* Measurement accessors                                                   *)
(***************************************************************************)
\* what an accessor leaves alone
AccessorFrame ==
  UNCHANGED << driverFields, wireBegun, pc, preset, nWrites >>

getBusVoltage_raw ==
  /\ pc = "idle"
  /\ wireReadRegister(INA219_REG_BUSVOLTAGE)
  /\ result' = BusVoltageRaw(value')
  /\ opName' = "getBusVoltage_raw"
  /\ AccessorFrame

getShuntVoltage_raw ==
  /\ pc = "idle"
  /\ wireReadRegister(INA219_REG_SHUNTVOLTAGE)
  /\ result' = ShuntVoltageRaw(value')
  /\ opName' = "getShuntVoltage_raw"
  /\ AccessorFrame

getCurrent_raw ==
  /\ pc = "idle"
  /\ wireReadRegister(INA219_REG_CURRENT)
  /\ result' = CurrentRaw(value')
  /\ opName' = "getCurrent_raw"
  /\ AccessorFrame

getShuntVoltage_mV ==
  /\ pc = "idle"
  /\ wireReadRegister(INA219_REG_SHUNTVOLTAGE)
  /\ result' = ShuntVoltage_mV(value')
  /\ opName' = "getShuntVoltage_mV"
  /\ AccessorFrame

getBusVoltage_V ==
  /\ pc = "idle"
  /\ wireReadRegister(INA219_REG_BUSVOLTAGE)
  /\ result' = BusVoltage_V(value')
  /\ opName' = "getBusVoltage_V"
  /\ AccessorFrame

getCurrent_mA ==
  /\ pc = "idle"
  /\ wireReadRegister(INA219_REG_CURRENT)
  /\ result' \in Current_mA(value', ina219_currentDivider_mA)
  /\ opName' = "getCurrent_mA"
  /\ AccessorFrame

Accessors == { "getBusVoltage_raw", "getShuntVoltage_raw", "getCurrent_raw",
               "getShuntVoltage_mV", "getBusVoltage_V", "getCurrent_mA" }

(***************************************************************************)
(* The chip's converter                                                    *)
(***************************************************************************)
\* the chip finishes a conversion and latches v into converter register r
Convert(r, v) ==
  /\ devRegs' = [devRegs EXCEPT ![r] = RegBytes(v)]
  /\ UNCHANGED << driverFields, wireBegun, devPtr, pc, opName, preset, busLog,
                  wireReg, wireVal, value, result, nWrites >>

(***************************************************************************)
(* Life cycle: construction, then any sequence of begin, presets and       *)
(* accessors, the converter running beside them                            *)
(***************************************************************************)
\* INA219::INA219(addr), before any call
Constructed(addr) ==
  /\ ina219_i2caddr = addr
  /\ ina219_currentDivider_mA = 0
  /\ ina219_powerDivider_mW = 0
  /\ wireBegun = FALSE
  /\ pc = "idle"
  /\ opName = "none"
  /\ preset = "none"
  /\ busLog = << >>
  /\ wireReg = 0
  /\ wireVal = 0
  /\ value = 0
  /\ result = 0
  /\ nWrites = 0

Init ==
  /\ \E addr \in Addresses : Constructed(addr)
  /\ devRegs = DevReset
  /\ devPtr = INA219_REG_CONFIG

Next ==
  \/ begin
  \/ ina219SetCalibration_32V_2A
  \/ ina219SetCalibration_32V_1A
  \/ ina219SetCalibration_16V_400mA
  \/ WriteCalibration
  \/ WriteConfig
  \/ getBusVoltage_raw
  \/ getShuntVoltage_raw
  \/ getCurrent_raw
  \/ getShuntVoltage_mV
  \/ getBusVoltage_V
  \/ getCurrent_mA
  \/ \E r \in MeasureRegs : \E v \in RawSamples(r) : Convert(r, v)

Spec == Init /\ [][Next]_vars

(***************************************************************************)
(* The accessors over every 16-bit register content: the driver has been   *)
(* begun and a preset applied, a converter register holds any raw value    *)
(***************************************************************************)
\* the state in which begin() and then, unless p is begin's own preset,
\* ina219SetCalibration_<p>() have returned, for a driver made with addr
Calibrated(addr, p) ==
  /\ ina219_i2caddr = addr
  /\ ina219_currentDivider_mA = CurrentDivider(p)
  /\ ina219_powerDivider_mW = PowerDivider(p)
  /\ wireBegun = TRUE
  /\ pc = "idle"
  /\ opName = (IF p = BeginPreset THEN "begin" ELSE PresetOp(p))
  /\ preset = p
  /\ busLog = (IF p = BeginPreset THEN << WireCall("begin", 0, 0) >> ELSE << >>)
              \o WireWriteCalls(addr, INA219_REG_CALIBRATION, CalibrationValue(p))
              \o WireWriteCalls(addr, INA219_REG_CONFIG, ConfigValue(p))
  /\ devPtr = INA219_REG_CONFIG
  /\ wireReg = INA219_REG_CONFIG
  /\ wireVal = ConfigValue(p)
  /\ value = 0
  /\ result = 0
  /\ nWrites = 0

\* the chip's registers once preset p is written and converter register r
\* holds v, the other converter registers still at their power-on 0
DevCalibrated(p, r, v) ==
  [ q \in RegIds |->
      IF q = INA219_REG_CONFIG THEN RegBytes(ConfigValue(p))
      ELSE IF q = INA219_REG_CALIBRATION THEN RegBytes(CalibrationValue(p))
      ELSE IF q = r THEN RegBytes(v)
      ELSE RegBytes(0) ]

\* getCurrent_mA under each preset, the current register holding any value
InitCurrent ==
  /\ \E p \in Presets : Calibrated(64, p)
  /\ \E v \in 0 .. Word - 1 : devRegs = DevCalibrated(preset, INA219_REG_CURRENT, v)

NextCurrent == getCurrent_mA

SpecCurrent == InitCurrent /\ [][NextCurrent]_vars

\* getShuntVoltage_mV, the shunt-voltage register holding any value
InitShunt ==
  /\ Calibrated(64, BeginPreset)
  /\ \E v \in 0 .. Word - 1 :
       devRegs = DevCalibrated(preset, INA219_REG_SHUNTVOLTAGE, v)

NextShunt == getShuntVoltage_mV

SpecShunt == InitShunt /\ [][NextShunt]_vars

\* the two bus-voltage accessors, the bus-voltage register holding any value
InitBusVoltage ==
  /\ Calibrated(64, BeginPreset)
  /\ \E v \in 0 .. Word - 1 :
       devRegs = DevCalibrated(preset, INA219_REG_BUSVOLTAGE, v)

NextBusVoltage ==
  \/ getBusVoltage_raw
  \/ getBusVoltage_V

SpecBusVoltage == InitBusVoltage /\ [][NextBusVoltage]_vars

(***************************************************************************)
(* The two bus primitives called directly against the register store       *)
(***************************************************************************)
\* wireWriteRegister(r, x), called on its own
WriteRegister(r, x) ==
  /\ nWrites < MaxWrites
  /\ nWrites' = nWrites + 1
  /\ busLog' = WireWriteCalls(ina219_i2caddr, r, x)
  /\ LET dev == DevAfterWrite(devRegs, devPtr, WireWriteBytes(r, x)) IN
       /\ devRegs' = dev.regs
       /\ devPtr' = dev.ptr
  /\ wireReg' = r
  /\ wireVal' = x
  /\ opName' = "wireWriteRegister"
  /\ UNCHANGED << driverFields, wireBegun, pc, preset, value, result >>

\* wireReadRegister(r, &value), called on its own
ReadRegister(r) ==
  /\ wireReadRegister(r)
  /\ opName' = "wireReadRegister"
  /\ UNCHANGED << driverFields, wireBegun, pc, preset, result, nWrites >>

InitBus == Init

NextBus ==
  \/ \E r \in RegIds : \E x \in WordSamples : WriteRegister(r, x)
  \/ \E r \in RegIds : ReadRegister(r)

SpecBus == InitBus /\ [][NextBus]_vars

(***************************************************************************)
(* Properties                                                              *)
(***************************************************************************)
\* the preset table of the documentation
DocCalibration(p) ==
  IF p = "32V_2A" THEN 4096 ELSE IF p = "32V_1A" THEN 10240 ELSE 8192

DocDivisors(p) ==
  IF p = "32V_2A" THEN << 10, 2 >> ELSE IF p = "32V_1A" THEN << 25, 1 >> ELSE << 20, 1 >>

\* range, gain, 12-bit bus and shunt resolution, continuous bus+shunt mode:
\* the fields occupy disjoint bits, so the word is their sum
DocConfig(p) ==
  IF p = "16V_400mA"
  THEN INA219_CONFIG_BVOLTAGERANGE_16V + INA219_CONFIG_GAIN_1_40MV
       + INA219_CONFIG_BADCRES_12BIT + INA219_CONFIG_SADCRES_12BIT_1S_532US
       + INA219_CONFIG_MODE_SANDBVOLT_CONTINUOUS
  ELSE INA219_CONFIG_BVOLTAGERANGE_32V + INA219_CONFIG_GAIN_8_320MV
       + INA219_CONFIG_BADCRES_12BIT + INA219_CONFIG_SADCRES_12BIT_1S_532US
       + INA219_CONFIG_MODE_SANDBVOLT_CONTINUOUS

divisors == << ina219_currentDivider_mA, ina219_powerDivider_mW >>

\* a 16-bit pattern read as a signed number
Signed(v) == IF v >= 32768 THEN v - 65536 ELSE v

\* the Wire calls of one register write: a transaction to addr carrying the
\* register id, then the value's high byte, then its low byte
DocRegisterWrite(addr, r, v) ==
  << WireCall("beginTransmission", addr, 0),
     WireCall("write", r, 0),
     WireCall("write", v \div 256, 0),
     WireCall("write", v % 256, 0),
     WireCall("endTransmission", 0, 0) >>

\* the number of calls named c in a log
CountCalls(log, c) == Cardinality({ i \in DOMAIN log : log[i].call = c })

PresetReturned(p) == pc = "idle" /\ opName = PresetOp(p)

\* C1: when a call of a preset operation has returned, the Wire calls it made
\* are exactly two register writes, the documented calibration constant to
\* the calibration register and then the preset's configuration word to the
\* configuration register, and (currentDivisor, powerDivisor) is the
\* documented pair.
C1_PresetWrites ==
  \A p \in Presets :
    PresetReturned(p) =>
      /\ busLog = DocRegisterWrite(ina219_i2caddr, INA219_REG_CALIBRATION,
                                   DocCalibration(p))
                  \o DocRegisterWrite(ina219_i2caddr, INA219_REG_CONFIG, DocConfig(p))
      /\ CountCalls(busLog, "beginTransmission") = 2
      /\ divisors = DocDivisors(p)

C1_Witness ==
  /\ PresetReturned("32V_1A")
  /\ divisors = << 25, 1 >>
  /\ RegWord(devRegs[INA219_REG_CALIBRATION]) = 10240

\* v/d + 0.5 with its fractional part dropped toward zero, as (2v + d)/(2d)
HalfUpTruncated(v, d) ==
  IF 2 * v + d >= 0 THEN (2 * v + d) \div (2 * d)
  ELSE 0 - ((0 - (2 * v + d)) \div (2 * d))

\* C2: with divisor 10 or 25, current_mA returns v/d + 0.5 truncated toward
\* zero, v the current register read as signed; raw 100 with d = 10 gives
\* 10 and raw -100 with d = 10 gives -9.
C2_CurrentRounding ==
  (opName = "getCurrent_mA" /\ ina219_currentDivider_mA \in { 10, 25 }) =>
     LET v == Signed(RegWord(devRegs[INA219_REG_CURRENT]))
         d == ina219_currentDivider_mA
     IN  /\ result = HalfUpTruncated(v, d)
         /\ (v = 100 /\ d = 10) => result = 10
         /\ (v = -100 /\ d = 10) => result = -9

C2_Witness ==
  /\ opName = "getCurrent_mA"
  /\ ina219_currentDivider_mA = 10
  /\ RegWord(devRegs[INA219_REG_CURRENT]) = 65436
  /\ result = -9

C4_BusVoltageAgree ==
  opName \in { "getBusVoltage_raw", "getBusVoltage_V" } =>
     result = (RegWord(devRegs[INA219_REG_BUSVOLTAGE]) \div 8) * 4

C4_Witness ==
  /\ opName = "getBusVoltage_V"
  /\ RegWord(devRegs[INA219_REG_BUSVOLTAGE]) = 65535
  /\ result = 32764

\* the state after rawBusVoltage of a driver made with address 0x40 and
\* begun, whose read of the bus-voltage register was answered with 0x1F28
C5_Case ==
  /\ ina219_i2caddr = 64
  /\ wireBegun
  /\ opName = "getBusVoltage_raw"
  /\ busLog[2] = WireCall("write", INA219_REG_BUSVOLTAGE, 0)
  /\ << busLog[5].a, busLog[6].a >> = << 31, 40 >>

\* C5 as stated: in that scenario rawBusVoltage returns 16160.
C5_Original == C5_Case => result = 16160

\* C5: a driver made with address 0x40 and begun, whose read of the
\* bus-voltage register is answered with 0x1F28, returns
\* (0x1F28 >> 3) * 4 = 997 * 4 = 3988 from rawBusVoltage.
C5_Scenario == C5_Case => result = 3988

C5_Witness == C5_Case /\ result = 3988

\* C6: a wireReadRegister(r) that follows a wireWriteRegister(r, x) returns x.
C6_RoundTrip ==
  [][ ( /\ opName = "wireWriteRegister"
        /\ opName' = "wireReadRegister"
        /\ wireReg' = wireReg )
      => value' = wireVal ]_vars

C6_Witness ==
  /\ opName = "wireReadRegister"
  /\ wireReg = INA219_REG_POWER
  /\ wireVal = 32769
  /\ devRegs[INA219_REG_POWER] = << 128, 1 >>
  /\ value = 32769

C7_Between ==
  pc = "idle" =>
    /\ (divisors = << 0, 0 >>) <=> (preset = "none")
    /\ preset # "none" => divisors = DocDivisors(preset)
    /\ opName = "begin" => divisors = << 10, 2 >>

C7_Step ==
  /\ divisors # << 0, 0 >> => divisors' # << 0, 0 >>
  /\ divisors' # divisors =>
       /\ pc = "idle"
       /\ pc' = "cal"
       /\ opName' \in { "begin" } \cup { PresetOp(p) : p \in Presets }

\* C7: between calls the divisor pair is (0,0) exactly as long as neither
\* begin nor a preset has been called, and otherwise is the pair of the
\* preset applied last, begin applying 32V/2A; the pair never returns to
\* (0,0) and changes only in a step of begin or of a preset.
C7_Divisors == [] C7_Between /\ [][C7_Step]_vars

C7_Witness ==
  /\ pc = "idle"
  /\ opName = "getCurrent_mA"
  /\ preset = "16V_400mA"
  /\ divisors = << 20, 1 >>
  /\ wireBegun

\* the accessor's log shows one register read and no register write: one
\* write transaction that carries the register id alone, and one request
OneReadNoWrite(log) ==
  /\ CountCalls(log, "beginTransmission") = 1
  /\ CountCalls(log, "write") = 1
  /\ CountCalls(log, "endTransmission") = 1
  /\ CountCalls(log, "requestFrom") = 1
  /\ CountCalls(log, "read") = 2

C8_AfterAccessor == opName \in Accessors => OneReadNoWrite(busLog)

\* a step into a state whose last operation is an accessor changes neither
\* the driver's fields nor the chip's configuration and calibration
C8_Frame ==
  opName' \in Accessors =>
    /\ driverFields' = driverFields
    /\ devRegs'[INA219_REG_CONFIG] = devRegs[INA219_REG_CONFIG]
    /\ devRegs'[INA219_REG_CALIBRATION] = devRegs[INA219_REG_CALIBRATION]

\* two calls in a row of one accessor that read the same value, under the
\* same currentDivisor for current_mA, return the same result
C8_SameInSameOut ==
  ( /\ opName \in Accessors
    /\ opName' = opName
    /\ value' = value
    /\ ina219_currentDivider_mA' = ina219_currentDivider_mA )
  => result' = result

\* the same, current_mA being held to it only when currentDivisor is not 0
C8_SameInSameOutCalibrated ==
  ( /\ opName \in Accessors
    /\ opName' = opName
    /\ value' = value
    /\ ina219_currentDivider_mA' = ina219_currentDivider_mA
    /\ opName = "getCurrent_mA" => ina219_currentDivider_mA # 0 )
  => result' = result

C9_ReadSequence ==
  opName \in Accessors =>
    /\ Len(busLog) = 6
    /\ busLog[1] = WireCall("beginTransmission", ina219_i2caddr, 0)
    /\ busLog[2] = WireCall("write", wireReg, 0)
    /\ busLog[3] = WireCall("endTransmission", 0, 0)
    /\ busLog[4] = WireCall("requestFrom", ina219_i2caddr, 2)
    /\ busLog[5].call = "read"
    /\ busLog[6].call = "read"
    /\ value = busLog[5].a * 256 + busLog[6].a
    /\ wireReg \in MeasureRegs

C9_Witness ==
  /\ opName = "getCurrent_raw"
  /\ ina219_i2caddr = 65
  /\ wireReg = INA219_REG_CURRENT
  /\ << busLog[5].a, busLog[6].a >> = << 255, 156 >>
  /\ value = 65436

\* C10: whenever no operation is running and begin or a preset has been
\* applied, the chip's calibration register, its configuration register and
\* the driver's divisors hold the values of the preset applied last.
C10_Consistent ==
  (pc = "idle" /\ preset # "none") =>
    /\ RegWord(devRegs[INA219_REG_CALIBRATION]) = DocCalibration(preset)
    /\ RegWord(devRegs[INA219_REG_CONFIG]) = DocConfig(preset)
    /\ divisors = DocDivisors(preset)

C10_Witness ==
  /\ pc = "idle"
  /\ opName = "getShuntVoltage_mV"
  /\ preset = "16V_400mA"
  /\ wireBegun
  /\ RegWord(devRegs[INA219_REG_CALIBRATION]) = 8192
  /\ RegWord(devRegs[INA219_REG_CONFIG]) = 1055

=============================================================================
